---- MODULE Spec2Model ----
(***************************************************************************)
(* Model of yt_downloader.py: the retrying transport (_make_request), the  *)
(* context negotiation and catalog normalisation (get_video_info), and the *)
(* format selection, stream transfer and merge of download_video.          *)
(*                                                                         *)
(* Conventions.  A Python value that may be None/absent is a sequence of   *)
(* length at most one: <<>> is None, <<v>> is the value v.  A Python       *)
(* string that the code inspects character by character is a sequence of   *)
(* one-character strings.  Sleep durations are in tenths of a time unit.   *)
(***************************************************************************)
EXTENDS Integers, Sequences, FiniteSets, TLC

VARIABLES
    op,               \* public operation in progress: "none", "request", "info", "download"
    pc,               \* position of the single thread of control
    args,             \* arguments of the public call in progress (the url is
                      \* read once, on entry, into video_id; it is kept in
                      \* args only where the extraction is a step of its own)
    attempt,          \* _make_request: loop variable `attempt`
    data,             \* _make_request: the `data` variable: "none", "dict" or "bytes"
    trace,            \* _make_request: what the call in progress (or the direct
                      \* call that returned) did, in order
    reqResult,        \* _make_request: what the last call returned or raised
    idx,              \* get_video_info: loop index over contexts_to_try (1-based)
    consulted,        \* get_video_info: per consulted context, its clientName and outcome
    pacing,           \* get_video_info: number of inter-context sleeps performed
    player_response,  \* get_video_info: the local variable player_response
    video_id,         \* get_video_info: extracted video id
    info,             \* download_video: value returned by get_video_info
    plan,             \* download_video: selected_video / selected_audio
    fs,               \* files this call created: name -> [chunks, complete]
    stream,           \* _download_stream in progress: target file and url
    effects,          \* external effects of download_video, in order
    result,           \* value returned by the public operation
    process           \* main: the command-line process and its exit code

vars == <<op, pc, args, attempt, data, trace, reqResult, idx, consulted, pacing,
          player_response, video_id, info, plan, fs, stream, effects, result, process>>

transportVars == <<attempt, data, trace, reqResult>>
negotiationVars == <<idx, consulted, pacing, player_response, video_id>>
downloadVars == <<info, plan, fs, stream, effects>>

None == <<>>
Some(v) == <<v>>

(***************************************************************************)
(* Bounds of the model.                                                    *)
(***************************************************************************)
MaxChunks == 2        \* chunks a stream delivers before end of stream
MaxFormats == 2       \* raw format records in a generated streamingData list pair
MaxLabelLen == 3      \* characters of a generated qualityLabel
MaxUrlParts == 3      \* parts a generated url is put together from

\* uniform(0, 1) jitter and uniform(1.0, 3.0) retry delay, each sampled at two
\* points of its range, in tenths of a time unit.
JitterTenths == {0, 9}
RetryDelayTenths == {10, 30}

(***************************************************************************)
(* Strings.                                                                *)
(***************************************************************************)
Digits == {"0", "1", "2", "3", "4", "5", "6", "7", "8", "9"}

Lower == {"a", "b", "c", "d", "e", "f", "g", "h", "i", "j", "k", "l", "m",
          "n", "o", "p", "q", "r", "s", "t", "u", "v", "w", "x", "y", "z"}

Upper == {"A", "B", "C", "D", "E", "F", "G", "H", "I", "J", "K", "L", "M",
          "N", "O", "P", "Q", "R", "S", "T", "U", "V", "W", "X", "Y", "Z"}

\* the character class [0-9A-Za-z_-]
IdChars == Digits \cup Lower \cup Upper \cup {"_", "-"}

IdLen == 11

DigitVal(c) ==
    CASE c = "0" -> 0 [] c = "1" -> 1 [] c = "2" -> 2 [] c = "3" -> 3
      [] c = "4" -> 4 [] c = "5" -> 5 [] c = "6" -> 6 [] c = "7" -> 7
      [] c = "8" -> 8 [] c = "9" -> 9


Min(S) == CHOOSE x \in S : \A y \in S : x <= y

SeqsOfLen(S, n) == [1..n -> S]

(***************************************************************************)
(* extract_video_id: the three patterns, tried in order with re.search.    *)
(***************************************************************************)
\* [0-9A-Za-z_-]{11} matches s at position i
IdAt(s, i) ==
    /\ i >= 1
    /\ i + IdLen - 1 <= Len(s)
    /\ \A j \in 0..(IdLen - 1) : s[i + j] \in IdChars

LitAt(s, i, lit) ==
    /\ i >= 1
    /\ i + Len(lit) - 1 <= Len(s)
    /\ \A j \in 1..Len(lit) : s[i + j - 1] = lit[j]

\* variant: the first pattern without the alternative \/
Pattern1Groups_VOnly(s) ==
    {g \in 1..Len(s) : IdAt(s, g) /\ LitAt(s, g - 2, <<"v", "=">>)}

\* (?:v=|\/)([0-9A-Za-z_-]{11}).*   -- start positions of group 1
Pattern1Groups(s) ==
    {g \in 1..Len(s) : /\ IdAt(s, g)
                       /\ \/ LitAt(s, g - 2, <<"v", "=">>)
                          \/ LitAt(s, g - 1, <<"/">>)}

\* (?:embed\/)([0-9A-Za-z_-]{11})
Pattern2Groups(s) ==
    {g \in 1..Len(s) : IdAt(s, g) /\ LitAt(s, g - 6, <<"e", "m", "b", "e", "d", "/">>)}

\* ^([0-9A-Za-z_-]{11})$   ($ also matches before one trailing newline)
Pattern3Matches(s) ==
    /\ IdAt(s, 1)
    /\ \/ Len(s) = IdLen
       \/ Len(s) = IdLen + 1 /\ s[Len(s)] = "\n"

\* group 1 of the leftmost match: the match that starts first also has the
\* first group
FirstGroup(s, groups) ==
    LET g == Min(groups) IN SubSeq(s, g, g + IdLen - 1)

\* Some(id) when a pattern matches, None when ValueError is raised
extract_video_id(url) ==
    IF Pattern1Groups(url) # {}
    THEN Some(FirstGroup(url, Pattern1Groups(url)))
    ELSE IF Pattern2Groups(url) # {}
    THEN Some(FirstGroup(url, Pattern2Groups(url)))
    ELSE IF Pattern3Matches(url)
    THEN Some(SubSeq(url, 1, IdLen))
    ELSE None

SampleId == <<"d", "Q", "w", "4", "w", "9", "W", "g", "X", "c", "Q">>

\* inputs of the public operations: a bare id, a watch URL, an embed URL, and
\* two inputs that match no pattern
SampleUrls ==
    { SampleId,
      <<"y", ".", "t", "/", "w", "?", "v", "=">> \o SampleId,
      <<"y", ".", "t", "/", "e", "m", "b", "e", "d", "/">> \o SampleId,
      <<"n", "o", "t", " ", "a", " ", "u", "r", "l">>,
      <<>> }

(***************************************************************************)
(* _make_request: the retrying transport.                                  *)
(***************************************************************************)
max_retries == 3

TraceEntry(kind, n, body) == [kind |-> kind, n |-> n, body |-> body]

RECURSIVE Pow2(_)
Pow2(n) == IF n = 0 THEN 1 ELSE 2 * Pow2(n - 1)

\* line 112-115: the delay slept at the top of every attempt but the first
PreDelay(att, d) ==
    IF att > 0 THEN <<TraceEntry("sleep_delay", d, "")>> ELSE <<>>

\* line 137: wait_time = (2 ** attempt) + random.uniform(0, 1)
BackoffSleep(att, j) == TraceEntry("sleep_backoff", 10 * Pow2(att) + j, "")

\* line 144: time.sleep(1)
FixedSleep == TraceEntry("sleep_fixed", 10, "")

\* variant: the 403 branch without the check of the remaining attempts
Retry403_NoBudget(code, att) == code = 403

\* line 135: e.code == 403 and attempt < max_retries - 1
Retry403(code, att) == code = 403 /\ att < max_retries - 1

\* variant: the budget check off by one
RetryOther_OffByOne(att) == att < max_retries - 2

\* line 143: attempt < max_retries - 1
RetryOther(att) == att < max_retries - 1

\* line 117-119: `if data: data = json.dumps(data).encode('utf-8')`.
\* A dict is serialised to bytes; bytes from an earlier attempt are truthy
\* and json.dumps raises TypeError on them.
EncodeRaises(d) == d = "bytes"

Encoded(d) == IF d = "dict" THEN "bytes" ELSE d

BodySent(d) == IF Encoded(d) = "bytes" THEN "json" ELSE "none"

NoPayload == [valid |-> FALSE, tag |-> "none"]
NoExc == [type |-> "none", msg |-> <<>>]

Content(p) == [kind |-> "content", payload |-> p, exc |-> NoExc]
Raised(e) == [kind |-> "raise", payload |-> NoPayload, exc |-> e]
NoResult == [kind |-> "none", payload |-> NoPayload, exc |-> NoExc]

HTTPError(code) ==
    [type |-> "HTTPError",
     msg |-> <<"HTTP Error", IF code = 403 THEN "403" ELSE IF code = 404 THEN "404" ELSE "500">>]
OtherError(kind) == [type |-> kind, msg |-> <<kind>>]
TypeError == [type |-> "TypeError", msg |-> <<"Object of type bytes is not JSON serializable">>]

HttpErrorCodes == {403, 404, 500}
\* URLError, socket timeout, and a gzip or utf-8 decoding failure of the body
OtherErrorKinds == {"timeout", "network", "decode"}


(***************************************************************************)
(* The metadata endpoint's responses.                                      *)
(***************************************************************************)
RawFormat(itag, qualityLabel, quality, mimeType, url, bitrate) ==
    [itag |-> itag, qualityLabel |-> qualityLabel, quality |-> quality,
     mimeType |-> mimeType, url |-> url, bitrate |-> bitrate]

L360p == <<"3", "6", "0", "p">>
L480p == <<"4", "8", "0", "p">>
L720p == <<"7", "2", "0", "p">>
L1080p == <<"1", "0", "8", "0", "p">>
L720p60 == <<"7", "2", "0", "p", "6", "0">>
Lmedium == <<"m", "e", "d", "i", "u", "m">>
Ltiny == <<"t", "i", "n", "y">>

MimeVideoMp4 == <<"video", "/", "mp4">>
MimeAudioMp4 == <<"audio", "/", "mp4">>
MimeAudioWebm == <<"audio", "/", "webm">>

\* entries of streamingData.formats
RawCombinedPool ==
    { RawFormat(18, Some(L360p), Some(Lmedium), Some(MimeVideoMp4), Some("u18"), None),
      RawFormat(22, Some(L720p), None, Some(MimeVideoMp4), Some("u22"), None),
      RawFormat(37, Some(L1080p), None, Some(MimeVideoMp4), None, None) }

\* entries of streamingData.adaptiveFormats
RawAdaptivePool ==
    { RawFormat(137, Some(L1080p), None, Some(MimeVideoMp4), Some("u137"), Some(4000000)),
      RawFormat(298, Some(L720p60), None, Some(MimeVideoMp4), Some("u298"), Some(3000000)),
      RawFormat(136, Some(L720p), None, Some(MimeVideoMp4), Some("u136"), Some(2000000)),
      RawFormat(140, None, Some(Ltiny), Some(MimeAudioMp4), Some("u140"), Some(128000)),
      RawFormat(251, None, Some(Ltiny), Some(MimeAudioWebm), Some("u251"), Some(320000)),
      RawFormat(139, None, Some(Ltiny), Some(MimeAudioMp4), Some("u139"), None),
      RawFormat(141, None, Some(Ltiny), Some(MimeAudioMp4), Some(""), Some(256000)) }

StreamingData(formats, adaptiveFormats) ==
    [formats |-> formats, adaptiveFormats |-> adaptiveFormats]

ByItag(pool, itag) == CHOOSE f \in pool : f.itag = itag

\* streamingData values the endpoint serves during negotiation
SampleStreams ==
    { StreamingData(<<>>, <<>>),
      StreamingData(<<ByItag(RawCombinedPool, 18)>>, <<>>),
      StreamingData(<<ByItag(RawCombinedPool, 18), ByItag(RawCombinedPool, 37)>>,
                    <<ByItag(RawAdaptivePool, 137), ByItag(RawAdaptivePool, 140)>>) }

Playability(status, reason) == [status |-> status, reason |-> reason]

\* playabilityStatus: absent, or an object with an optional status and reason
PlayabilityValues ==
    { None,
      Some(Playability(Some("OK"), None)),
      Some(Playability(Some("UNPLAYABLE"), Some("Blocked"))),
      Some(Playability(Some("LOGIN_REQUIRED"), Some("Sign in"))),
      Some(Playability(Some("ERROR"), None)) }

\* A parsed player response.  `servedTo` is the index of the context the
\* endpoint answered; it stands for the videoDetails served to that context.
Response(ps, servedTo, streams, thumbs) ==
    [valid |-> TRUE, tag |-> "json", playabilityStatus |-> ps, servedTo |-> servedTo,
     streamingData |-> streams, thumbnails |-> thumbs]

\* a body that json.loads rejects
BadJson == [valid |-> FALSE, tag |-> "not json"]

\* every playability value with every sample catalog, and with an empty
\* thumbnail list
ResponsesFor(i) ==
    { Response(ps, i, sd, <<"t.jpg">>) : ps \in PlayabilityValues, sd \in SampleStreams }
    \cup { Response(ps, i, StreamingData(<<>>, <<>>), <<>>) : ps \in PlayabilityValues }

\* what the server may answer to the request of context i (0: a direct call)
PlainText == [valid |-> FALSE, tag |-> "text"]

PayloadsFor(i) ==
    IF i = 0 THEN { PlainText } ELSE ResponsesFor(i) \cup { BadJson }


(***************************************************************************)
(* get_video_info: catalog normalisation and the returned record.          *)
(***************************************************************************)
\* variant: the test made on the presence of the key
HasUrl_KeyPresent(fmt) == fmt.url # None

\* fmt.get('url') is truthy
HasUrl(fmt) == fmt.url # None /\ fmt.url[1] # ""

\* fmt.get('qualityLabel', fmt.get('quality'))
QualityOf(fmt) == IF fmt.qualityLabel # None THEN fmt.qualityLabel ELSE fmt.quality

\* 'audio' in mime_type, for a mime type split into its tokens
MimeContains(mime, word) == \E i \in 1..Len(mime) : mime[i] = word

CombinedRecord(fmt) ==
    [itag |-> fmt.itag, quality |-> QualityOf(fmt), mimeType |-> fmt.mimeType,
     url |-> fmt.url[1], hasAudio |-> TRUE, hasVideo |-> TRUE,
     bitrateKey |-> FALSE, bitrate |-> None]

AdaptiveRecord(fmt) ==
    LET mime_type == IF fmt.mimeType = None THEN <<>> ELSE fmt.mimeType[1]
    IN [itag |-> fmt.itag, quality |-> QualityOf(fmt), mimeType |-> Some(mime_type),
        url |-> fmt.url[1], hasAudio |-> MimeContains(mime_type, "audio"),
        hasVideo |-> MimeContains(mime_type, "video"),
        bitrateKey |-> TRUE, bitrate |-> fmt.bitrate]

\* lines 209-235
NormalizeFormats(streaming_data) ==
    LET combined == SelectSeq(streaming_data.formats, HasUrl)
        adaptive == SelectSeq(streaming_data.adaptiveFormats, HasUrl)
    IN [i \in 1..Len(combined) |-> CombinedRecord(combined[i])]
       \o [i \in 1..Len(adaptive) |-> AdaptiveRecord(adaptive[i])]

Error(msg) == [kind |-> "error", msg |-> msg]

\* lines 206-248; reading an unassigned player_response raises
\* UnboundLocalError and thumbnails[-1] raises IndexError on an empty list,
\* which the handler of line 250 turns into an error record
BuildInfo(vid, resp) ==
    IF ~resp.valid
    THEN Error(<<"local variable 'player_response' referenced before assignment">>)
    ELSE IF resp.thumbnails = <<>>
    THEN Error(<<"list index out of range">>)
    ELSE [kind |-> "info", id |-> vid, details |-> resp.servedTo,
          formats |-> NormalizeFormats(resp.streamingData),
          thumbnail |-> resp.thumbnails[Len(resp.thumbnails)]]

(***************************************************************************)
(* download_video: format selection (lines 300-393).                       *)
(***************************************************************************)
Remove(s, c) == SelectSeq(s, LAMBDA x : x # c)

Contains(s, c) == \E i \in 1..Len(s) : s[i] = c

RECURSIVE StripLeft(_)
StripLeft(s) == IF s # <<>> /\ Head(s) = " " THEN StripLeft(Tail(s)) ELSE s

RECURSIVE StripRight(_)
StripRight(s) ==
    IF s # <<>> /\ s[Len(s)] = " " THEN StripRight(SubSeq(s, 1, Len(s) - 1)) ELSE s

RECURSIVE DigitsValue(_)
DigitsValue(s) ==
    IF s = <<>> THEN 0
    ELSE IF s[Len(s)] = "_" THEN DigitsValue(SubSeq(s, 1, Len(s) - 1))
    ELSE 10 * DigitsValue(SubSeq(s, 1, Len(s) - 1)) + DigitVal(s[Len(s)])

\* digits, with single underscores allowed between digits
IsDecimalLiteral(s) ==
    /\ s # <<>>
    /\ \A i \in 1..Len(s) : s[i] \in Digits \cup {"_"}
    /\ s[1] \in Digits
    /\ s[Len(s)] \in Digits
    /\ \A i \in 1..(Len(s) - 1) : ~(s[i] = "_" /\ s[i + 1] = "_")

\* Python int(str): Some(n), or None when ValueError is raised
ParseInt(str) ==
    LET t == StripRight(StripLeft(str))
        signed == t # <<>> /\ Head(t) \in {"+", "-"}
        body == IF signed THEN Tail(t) ELSE t
    IN IF IsDecimalLiteral(body)
       THEN Some(IF signed /\ Head(t) = "-" THEN 0 - DigitsValue(body) ELSE DigitsValue(body))
       ELSE None

\* lines 340-347
get_resolution(f) ==
    IF f.quality # None /\ Contains(f.quality[1], "p")
    THEN LET n == ParseInt(Remove(f.quality[1], "p"))
         IN IF n = None THEN 0 ELSE n[1]
    ELSE 0

Abs(n) == IF n < 0 THEN 0 - n ELSE n

\* the place of the keyed element x in the list `sorted`, which is ascending
\* by key: after every element whose key is not greater (list.sort is stable)
RECURSIVE InsertSorted(_, _)
InsertSorted(sorted, x) ==
    IF sorted = <<>> THEN <<x>>
    ELSE IF x.k < Head(sorted).k THEN <<x>> \o sorted
    ELSE <<Head(sorted)>> \o InsertSorted(Tail(sorted), x)

RECURSIVE SortKeyed(_)
SortKeyed(s) ==
    IF s = <<>> THEN <<>>
    ELSE InsertSorted(SortKeyed(SubSeq(s, 1, Len(s) - 1)), s[Len(s)])

\* list.sort on the list of [k: key, v: element]: stable, ascending by key
StableSort(keyed) ==
    LET sorted == SortKeyed(keyed)
    IN [i \in 1..Len(keyed) |-> sorted[i].v]

\* variant: the sort without reverse=True
SortByResolutionDesc_NoReverse(fs0) ==
    StableSort([i \in 1..Len(fs0) |-> [k |-> get_resolution(fs0[i]), v |-> fs0[i]]])

\* list.sort(key=get_resolution, reverse=True): descending, and equal keys
\* keep their original order
SortByResolutionDesc(fs0) ==
    StableSort([i \in 1..Len(fs0) |-> [k |-> 0 - get_resolution(fs0[i]), v |-> fs0[i]]])

\* list.sort(key=get_resolution)
SortByResolutionAsc(fs0) ==
    StableSort([i \in 1..Len(fs0) |-> [k |-> get_resolution(fs0[i]), v |-> fs0[i]]])

\* variant: the distance taken without abs()
SortByDistance_Signed(fs0, target_res) ==
    StableSort([i \in 1..Len(fs0) |->
                   [k |-> get_resolution(fs0[i]) - target_res, v |-> fs0[i]]])

\* list.sort(key=lambda f: abs(get_resolution(f) - target_res))
SortByDistance(fs0, target_res) ==
    StableSort([i \in 1..Len(fs0) |->
                   [k |-> Abs(get_resolution(fs0[i]) - target_res), v |-> fs0[i]]])

\* x.get('bitrate', 0): the default applies only when the key is missing; an
\* adaptive record always has the key, with value None when the API omits it
BitrateKey(x) == IF x.bitrateKey THEN x.bitrate ELSE Some(0)

\* sorting two or more keys of which one is None raises TypeError
BitrateSortRaises(fs0) ==
    Len(fs0) >= 2 /\ \E i \in 1..Len(fs0) : BitrateKey(fs0[i]) = None

\* list.sort(key=lambda x: x.get('bitrate', 0), reverse=True), when it does not raise
SortByBitrateDesc(fs0) ==
    IF Len(fs0) < 2 THEN fs0
    ELSE StableSort([i \in 1..Len(fs0) |-> [k |-> 0 - BitrateKey(fs0[i])[1], v |-> fs0[i]]])

IsAudioOnly(f) == f.hasAudio /\ ~f.hasVideo
IsVideo(f) == f.hasVideo
IsCombined(f) == f.hasAudio /\ f.hasVideo

Qbest == <<"b", "e", "s", "t">>
Qworst == <<"w", "o", "r", "s", "t">>

SelError(msg) == [kind |-> "error", msg |-> msg, video |-> None, audio |-> None]
SelSingle(f) == [kind |-> "single", msg |-> <<>>, video |-> Some(f), audio |-> None]
SelAudioOnly(f) == [kind |-> "audio_only", msg |-> <<>>, video |-> None, audio |-> Some(f)]
SelMerge(v, a) == [kind |-> "merge", msg |-> <<>>, video |-> Some(v), audio |-> Some(a)]

NotSupportedMsg == <<"'<' not supported between instances of 'NoneType' and 'int'">>

\* lines 313-319
SelectAudioOnly(formats) ==
    LET audio_formats == SelectSeq(formats, IsAudioOnly)
    IN IF audio_formats = <<>> THEN SelError(<<"No audio-only formats found">>)
       ELSE IF BitrateSortRaises(audio_formats) THEN SelError(NotSupportedMsg)
       ELSE SelAudioOnly(SortByBitrateDesc(audio_formats)[1])

FirstOrNone(s) == IF s = <<>> THEN None ELSE Some(s[1])

\* lines 355-376: Some(selected_video), None, or an error
SelectVideo(video_formats, quality) ==
    IF quality = Qbest
    THEN [err |-> <<>>, sel |-> FirstOrNone(SortByResolutionDesc(video_formats))]
    ELSE IF quality = Qworst
    THEN [err |-> <<>>, sel |-> FirstOrNone(SortByResolutionAsc(video_formats))]
    ELSE IF quality # <<>> /\ quality[Len(quality)] = "p"
    THEN LET target == ParseInt(Remove(quality, "p"))
         IN IF target = None
            THEN [err |-> <<"Invalid quality format: ">> \o quality, sel |-> None]
            ELSE LET exact_match ==
                         SelectSeq(video_formats,
                                   LAMBDA f : get_resolution(f) = target[1])
                 IN IF exact_match # <<>>
                    THEN [err |-> <<>>, sel |-> Some(exact_match[1])]
                    ELSE [err |-> <<>>,
                          sel |-> FirstOrNone(SortByDistance(video_formats, target[1]))]
    ELSE [err |-> <<"Invalid quality: ">> \o quality, sel |-> None]

\* line 385: merge and not has_audio and audio_formats
ShouldMerge(merge, selected_video, audio_formats) ==
    merge /\ ~selected_video.hasAudio /\ audio_formats # <<>>

\* lines 349-393 and 449-452
SelectVideoPlan(formats, quality, merge) ==
    LET video_formats == SelectSeq(formats, IsVideo)
        audio_formats == SelectSeq(formats, IsAudioOnly)
        choice == SelectVideo(video_formats, quality)
    IN IF choice.err # <<>> THEN SelError(choice.err)
       ELSE IF choice.sel = None THEN SelError(<<"No suitable video format found">>)
       ELSE IF ShouldMerge(merge, choice.sel[1], audio_formats)
       THEN IF BitrateSortRaises(audio_formats) THEN SelError(NotSupportedMsg)
            ELSE SelMerge(choice.sel[1], SortByBitrateDesc(audio_formats)[1])
       ELSE SelSingle(choice.sel[1])

\* lines 300-393: the plan for a non-empty catalog
Selection(formats, quality, audio_only, merge) ==
    IF audio_only THEN SelectAudioOnly(formats)
    ELSE SelectVideoPlan(formats, quality, merge)

(***************************************************************************)
(* get_video_info: context negotiation.                                    *)
(***************************************************************************)
\* [self.innertube_context] + self.fallback_contexts, each context by clientName
contexts_to_try == <<"ANDROID", "IOS", "ANDROID_EMBEDDED_PLAYER", "WEB">>

\* variant: the comparison made with contexts_to_try[0]
IsLastContext_First(i) == contexts_to_try[i] = contexts_to_try[1]

\* variant: an identity test against a fresh copy, which is never true
IsLastContext_Never(i) == FALSE

\* lines 198, 202: context == contexts_to_try[-1]
IsLastContext(i) == contexts_to_try[i] = contexts_to_try[Len(contexts_to_try)]

\* variant: the loop runs over contexts_to_try[:-1]
HasNextContext_Short(i) == i < Len(contexts_to_try) - 1

\* the loop of line 174 has another context after the i-th
HasNextContext(i) == i < Len(contexts_to_try)

Consult(i, outcome) == [context |-> contexts_to_try[i], outcome |-> outcome]

\* reason = playabilityStatus.get('reason', 'Unknown error')
ReasonOf(ps) == IF ps.reason = None THEN "Unknown error" ELSE ps.reason[1]

JSONDecodeError == [type |-> "JSONDecodeError", msg |-> <<"Expecting value">>]

NoArgs ==
    [hasBody |-> FALSE, quality |-> <<>>, audio_only |-> FALSE, merge |-> FALSE,
     url |-> <<>>]

NoValue == [kind |-> "none"]
NoFilename == [details |-> 0, id |-> <<>>, ext |-> ""]
NoPlan == [kind |-> "none", video |-> None, audio |-> None, filename |-> NoFilename]
NoStream == [target |-> "", url |-> ""]

\* the command-line process: not started (the class is used as a library),
\* started, in a core call, or exited with a code
NoProcess == [state |-> "none", code |-> 0]
Started == [state |-> "started", code |-> 0]
Running == [state |-> "running", code |-> 0]
Exited(code) == [state |-> "exited", code |-> code]

FileNames == {"final", "vtemp", "atemp"}
AbsentFile == [exists |-> FALSE, chunks |-> 0, complete |-> FALSE]
EmptyFile == [exists |-> TRUE, chunks |-> 0, complete |-> FALSE]

Init ==
    /\ op = "none"
    /\ pc = "idle"
    /\ args = NoArgs
    /\ attempt = 0
    /\ data = "none"
    /\ trace = <<>>
    /\ reqResult = NoResult
    /\ idx = 0
    /\ consulted = <<>>
    /\ pacing = 0
    /\ player_response = NoPayload
    /\ video_id = <<>>
    /\ info = NoValue
    /\ plan = NoPlan
    /\ fs = [n \in FileNames |-> AbsentFile]
    /\ stream = NoStream
    /\ effects = <<>>
    /\ result = NoValue
    /\ process = NoProcess

\* get_video_info, called by the public operation `caller`, returns `value`:
\* to the caller of the public operation, or to download_video (line 295)
InfoReturnTo(caller, value) ==
    IF caller = "info"
    THEN /\ result' = value
         /\ pc' = "done"
         /\ info' = info
    ELSE /\ info' = value
         /\ pc' = "select"
         /\ result' = result

\* the return of get_video_info in the operation in progress
InfoReturn(value) == InfoReturnTo(op, value)

\* lines 163-172: extract the id, or return the ValueError as an error record
EnterGetVideoInfo(caller, url) ==
    LET v == extract_video_id(url)
    IN IF v = None
       THEN /\ InfoReturnTo(caller, Error(<<"Could not extract video ID from URL">>))
            /\ UNCHANGED <<video_id, idx>>
       ELSE /\ video_id' = v[1]
            /\ idx' = 1
            /\ pc' = "context"
            /\ UNCHANGED <<info, result>>

\* a direct call of the transport, with or without a request body
CallMakeRequest ==
    /\ pc = "idle"
    /\ \E b \in BOOLEAN :
         /\ args' = [NoArgs EXCEPT !.hasBody = b]
         /\ data' = IF b THEN "dict" ELSE "none"
    /\ op' = "request"
    /\ pc' = "request"
    /\ attempt' = 0
    /\ trace' = <<>>
    /\ UNCHANGED <<reqResult, negotiationVars, downloadVars, result, process>>

\* get_video_info is entered with a url
StartGetVideoInfo ==
    /\ pc = "idle"
    /\ op' = "info"
    /\ \E u \in SampleUrls : EnterGetVideoInfo("info", u)
    /\ UNCHANGED <<args, transportVars, consulted, pacing, player_response, plan, fs,
                   stream, effects>>

CallGetVideoInfo ==
    /\ StartGetVideoInfo
    /\ UNCHANGED process

\* lines 174-184: loop head, the sleep of random.uniform(0.5, 1.5) before every
\* context but the first, and the call of _make_request
TryContext ==
    /\ pc = "context"
    /\ pacing' = IF idx > 1 THEN pacing + 1 ELSE pacing
    /\ attempt' = 0
    /\ data' = "dict"
    /\ trace' = <<>>
    /\ reqResult' = NoResult
    /\ pc' = "request"
    /\ UNCHANGED <<process, op, args, idx, consulted, player_response, video_id,
                   downloadVars, result>>

\* _make_request returns or raises `r`
TransportReturn(tr, r) ==
    /\ reqResult' = r
    /\ trace' = IF op = "request" THEN tr ELSE <<>>
    /\ pc' = IF op = "request" THEN "done" ELSE "parse"
    /\ result' = IF op = "request" THEN r ELSE result
    /\ UNCHANGED attempt

\* the handler ends with `continue`
TransportContinue ==
    /\ attempt' = attempt + 1
    /\ UNCHANGED <<pc, reqResult, result>>

\* lines 110-133: an attempt whose HTTP request succeeds
AttemptSuccess ==
    /\ pc = "request"
    /\ attempt < max_retries
    /\ ~EncodeRaises(data)
    /\ \E d \in RetryDelayTenths, p \in PayloadsFor(IF op = "request" THEN 0 ELSE idx) :
         TransportReturn(trace \o PreDelay(attempt, d)
                           \o <<TraceEntry("http_ok", 200, BodySent(data))>>,
                         Content(p))
    /\ data' = Encoded(data)
    /\ UNCHANGED <<process, op, args, negotiationVars, downloadVars>>

\* lines 134-141: urlopen raises HTTPError
AttemptHTTPError ==
    /\ pc = "request"
    /\ attempt < max_retries
    /\ ~EncodeRaises(data)
    /\ \E d \in RetryDelayTenths, code \in HttpErrorCodes, j \in JitterTenths :
         LET tr == trace \o PreDelay(attempt, d)
                     \o <<TraceEntry("http_error", code, BodySent(data))>>
         IN IF Retry403(code, attempt)
            THEN /\ trace' = Append(tr, BackoffSleep(attempt, j))
                 /\ TransportContinue
            ELSE TransportReturn(tr, Raised(HTTPError(code)))
    /\ data' = Encoded(data)
    /\ UNCHANGED <<process, op, args, negotiationVars, downloadVars>>

\* the handler of lines 142-146, entered with exception e after the steps `tr`
OnException(tr, e) ==
    IF RetryOther(attempt)
    THEN /\ trace' = Append(tr, FixedSleep)
         /\ TransportContinue
    ELSE TransportReturn(tr, Raised(e))

\* lines 142-146: urlopen, read, gzip or decode raises another exception
AttemptOtherError ==
    /\ pc = "request"
    /\ attempt < max_retries
    /\ ~EncodeRaises(data)
    /\ \E d \in RetryDelayTenths, k \in OtherErrorKinds :
         OnException(trace \o PreDelay(attempt, d)
                       \o <<TraceEntry("net_error", 0, BodySent(data))>>,
                     OtherError(k))
    /\ data' = Encoded(data)
    /\ UNCHANGED <<process, op, args, negotiationVars, downloadVars>>

\* line 118 on a later attempt: json.dumps(bytes) raises TypeError before any
\* request is issued
AttemptEncodeError ==
    /\ pc = "request"
    /\ attempt < max_retries
    /\ EncodeRaises(data)
    /\ \E d \in RetryDelayTenths :
         OnException(trace \o PreDelay(attempt, d)
                       \o <<TraceEntry("encode_error", 0, "none")>>,
                     TypeError)
    /\ UNCHANGED <<process, op, args, data, negotiationVars, downloadVars>>


\* `continue`, or the end of the loop body: the next context, or the code
\* after the loop when the list is exhausted
LoopContinue ==
    IF HasNextContext(idx)
    THEN /\ idx' = idx + 1
         /\ pc' = "context"
    ELSE /\ idx' = idx
         /\ pc' = "build"

\* lines 201-204: _make_request or json.loads raised
ParseException ==
    /\ pc = "parse"
    /\ reqResult.kind = "raise" \/ ~reqResult.payload.valid
    /\ consulted' = Append(consulted, Consult(idx, "EXCEPTION"))
    /\ LET e == IF reqResult.kind = "raise" THEN reqResult.exc ELSE JSONDecodeError
       IN IF IsLastContext(idx)
          THEN /\ InfoReturn(Error(e.msg))
               /\ idx' = idx
          ELSE /\ LoopContinue
               /\ UNCHANGED <<info, result>>
    /\ UNCHANGED <<process, op, args, transportVars, pacing, player_response, video_id,
                   plan, fs, stream, effects>>

ParsedResponse == reqResult.kind = "content" /\ reqResult.payload.valid

\* variant: status OK handled with `continue` in place of `break`
ParseOK_NoBreak ==
    /\ pc = "parse"
    /\ ParsedResponse
    /\ reqResult.payload.playabilityStatus # None
    /\ reqResult.payload.playabilityStatus[1].status = Some("OK")
    /\ player_response' = reqResult.payload
    /\ consulted' = Append(consulted, Consult(idx, "OK"))
    /\ LoopContinue
    /\ UNCHANGED <<process, op, args, transportVars, pacing, video_id, downloadVars, result>>

\* lines 185-191: status OK, break
ParseOK ==
    /\ pc = "parse"
    /\ ParsedResponse
    /\ reqResult.payload.playabilityStatus # None
    /\ reqResult.payload.playabilityStatus[1].status = Some("OK")
    /\ player_response' = reqResult.payload
    /\ consulted' = Append(consulted, Consult(idx, "OK"))
    /\ pc' = "build"
    /\ idx' = idx
    /\ UNCHANGED <<process, op, args, transportVars, pacing, video_id, downloadVars, result>>

\* lines 192-194: status UNPLAYABLE, continue
ParseUnplayable ==
    /\ pc = "parse"
    /\ ParsedResponse
    /\ reqResult.payload.playabilityStatus # None
    /\ reqResult.payload.playabilityStatus[1].status = Some("UNPLAYABLE")
    /\ player_response' = reqResult.payload
    /\ consulted' = Append(consulted, Consult(idx, "UNPLAYABLE"))
    /\ LoopContinue
    /\ UNCHANGED <<process, op, args, transportVars, pacing, video_id, downloadVars, result>>

\* lines 195-200: any other status
ParseOtherStatus ==
    /\ pc = "parse"
    /\ ParsedResponse
    /\ reqResult.payload.playabilityStatus # None
    /\ reqResult.payload.playabilityStatus[1].status \notin {Some("OK"), Some("UNPLAYABLE")}
    /\ player_response' = reqResult.payload
    /\ consulted' = Append(consulted, Consult(idx, "OTHER"))
    /\ IF IsLastContext(idx)
       THEN /\ InfoReturn(Error(<<"Video not available: ",
                                  ReasonOf(reqResult.payload.playabilityStatus[1])>>))
            /\ idx' = idx
       ELSE /\ LoopContinue
            /\ UNCHANGED <<info, result>>
    /\ UNCHANGED <<process, op, args, transportVars, pacing, video_id, plan, fs, stream, effects>>

\* line 187 is false: no playabilityStatus, the loop body ends
ParseNoStatus ==
    /\ pc = "parse"
    /\ ParsedResponse
    /\ reqResult.payload.playabilityStatus = None
    /\ player_response' = reqResult.payload
    /\ consulted' = Append(consulted, Consult(idx, "NOSTATUS"))
    /\ LoopContinue
    /\ UNCHANGED <<process, op, args, transportVars, pacing, video_id, downloadVars, result>>

\* lines 206-251: build the record from player_response and return it
BuildAndReturn ==
    /\ pc = "build"
    /\ InfoReturn(BuildInfo(video_id, player_response))
    /\ UNCHANGED <<process, op, args, transportVars, negotiationVars, plan, fs, stream, effects>>

(***************************************************************************)
(* download_video.                                                         *)
(***************************************************************************)
Qexact720 == <<"7", "2", "0", "p">>
Qexact700 == <<"7", "0", "0", "p">>
Qexact540 == <<"5", "4", "0", "p">>
Qbadp == <<"h", "d", "p">>
Qbad == <<"h", "d">>

\* quality arguments of the calls made during negotiation runs
SampleQualities == { Qbest, Qbad }

Effect(kind, arg) == [kind |-> kind, arg |-> arg]

\* f"{safe_title}_{info['id']}.{extension}"; the title is the one served with
\* the response the record was built from
Filename(inf, ext) == [details |-> inf.details, id |-> inf.id, ext |-> ext]

Success(filename, merged) == [kind |-> "success", filename |-> filename, merged |-> merged]

\* download_video is entered with a url, a quality and the two flags
StartDownloadVideo ==
    /\ pc = "idle"
    /\ op' = "download"
    /\ \E q \in SampleQualities, a \in BOOLEAN, m \in BOOLEAN :
         args' = [NoArgs EXCEPT !.quality = q, !.audio_only = a, !.merge = m]
    /\ \E u \in SampleUrls : EnterGetVideoInfo("download", u)
    /\ UNCHANGED <<transportVars, consulted, pacing, player_response, plan, fs,
                   stream, effects>>

CallDownloadVideo ==
    /\ StartDownloadVideo
    /\ UNCHANGED process

\* download_video returns `value`
DownloadReturn(value) ==
    /\ result' = value
    /\ pc' = "done"

\* lines 297-298: the error of get_video_info is returned as it is
ReturnInfoError ==
    /\ pc = "select"
    /\ info.kind = "error"
    /\ DownloadReturn(info)
    /\ UNCHANGED <<process, op, args, transportVars, negotiationVars, downloadVars>>

\* lines 302-303
ReturnNoFormats ==
    /\ pc = "select"
    /\ info.kind = "info"
    /\ info.formats = <<>>
    /\ DownloadReturn(Error(<<"No formats available with direct URLs">>))
    /\ UNCHANGED <<process, op, args, transportVars, negotiationVars, downloadVars>>

HasCatalog == pc = "select" /\ info.kind = "info" /\ info.formats # <<>>

ThePlan == Selection(info.formats, args.quality, args.audio_only, args.merge)

\* line 306: os.makedirs raises OSError
MakedirsFails ==
    /\ HasCatalog
    /\ effects' = Append(effects, Effect("makedirs", ""))
    /\ DownloadReturn(Error(<<"OSError">>))
    /\ UNCHANGED <<process, op, args, transportVars, negotiationVars, info, plan, fs, stream>>

\* variant: the temporary video file is created before the selection is made
SelectFails_AfterTemp ==
    /\ HasCatalog
    /\ ThePlan.kind = "error"
    /\ effects' = effects \o <<Effect("makedirs", ""), Effect("mktemp", "vtemp")>>
    /\ fs' = [fs EXCEPT !["vtemp"] = EmptyFile]
    /\ DownloadReturn(Error(ThePlan.msg))
    /\ UNCHANGED <<process, op, args, transportVars, negotiationVars, info, plan, stream>>

\* lines 306-379: the selection returns an error, or raises one that line 474 catches
SelectFails ==
    /\ HasCatalog
    /\ ThePlan.kind = "error"
    /\ effects' = Append(effects, Effect("makedirs", ""))
    /\ DownloadReturn(Error(ThePlan.msg))
    /\ UNCHANGED <<process, op, args, transportVars, negotiationVars, info, plan, fs, stream>>

\* lines 313-328: audio only, up to the call of _download_stream
StartAudioOnly ==
    /\ HasCatalog
    /\ ThePlan.kind = "audio_only"
    /\ effects' = Append(effects, Effect("makedirs", ""))
    /\ plan' = [kind |-> "audio_only", video |-> None, audio |-> ThePlan.audio,
                filename |-> Filename(info, "mp3")]
    /\ stream' = [target |-> "final", url |-> ThePlan.audio[1].url]
    /\ pc' = "open"
    /\ UNCHANGED <<process, op, args, transportVars, negotiationVars, info, fs, result>>

\* lines 349-385 and 449-462: a single stream, up to the call of _download_stream
StartSingle ==
    /\ HasCatalog
    /\ ThePlan.kind = "single"
    /\ effects' = Append(effects, Effect("makedirs", ""))
    /\ plan' = [kind |-> "single", video |-> ThePlan.video, audio |-> None,
                filename |-> Filename(info, "mp4")]
    /\ stream' = [target |-> "final", url |-> ThePlan.video[1].url]
    /\ pc' = "open"
    /\ UNCHANGED <<process, op, args, transportVars, negotiationVars, info, fs, result>>

\* lines 349-393: separate video and audio, up to the creation of the temporary files
StartMerge ==
    /\ HasCatalog
    /\ ThePlan.kind = "merge"
    /\ effects' = Append(effects, Effect("makedirs", ""))
    /\ plan' = [kind |-> "merge", video |-> ThePlan.video, audio |-> ThePlan.audio,
                filename |-> Filename(info, "mp4")]
    /\ pc' = "mktemp_video"
    /\ UNCHANGED <<process, op, args, transportVars, negotiationVars, info, fs, stream, result>>

\* lines 442-447: the finally block removes both temporary files
Cleanup(files) == [files EXCEPT !["vtemp"] = AbsentFile, !["atemp"] = AbsentFile]

\* the statement at pc is inside the try of line 402
InTry == pc = "merge" \/ (pc \in {"open", "read"} /\ stream.target # "final")

\* variant: download_video without the handler of line 474
DownloadRaise_NoHandler(files, msg) ==
    /\ fs' = IF InTry THEN Cleanup(files) ELSE files
    /\ DownloadReturn(Raised([type |-> "Exception", msg |-> msg]))

\* an exception leaves download_video: the finally block when inside the try
\* of line 402, then the handler of line 474
DownloadRaise(files, msg) ==
    /\ fs' = IF InTry THEN Cleanup(files) ELSE files
    /\ DownloadReturn(Error(msg))

\* lines 396-397: NamedTemporaryFile(suffix='.mp4', delete=False)
CreateVideoTemp ==
    /\ pc = "mktemp_video"
    /\ effects' = Append(effects, Effect("mktemp", "vtemp"))
    /\ fs' = [fs EXCEPT !["vtemp"] = EmptyFile]
    /\ pc' = "mktemp_audio"
    /\ UNCHANGED <<process, op, args, transportVars, negotiationVars, info, plan, stream, result>>

CreateVideoTempFails ==
    /\ pc = "mktemp_video"
    /\ effects' = Append(effects, Effect("mktemp", "vtemp"))
    /\ DownloadRaise(fs, <<"OSError">>)
    /\ UNCHANGED <<process, op, args, transportVars, negotiationVars, info, plan, stream>>

\* lines 399-404: the second temporary file, then the try block is entered
\* and the video stream download starts
CreateAudioTemp ==
    /\ pc = "mktemp_audio"
    /\ effects' = Append(effects, Effect("mktemp", "atemp"))
    /\ fs' = [fs EXCEPT !["atemp"] = EmptyFile]
    /\ stream' = [target |-> "vtemp", url |-> plan.video[1].url]
    /\ pc' = "open"
    /\ UNCHANGED <<process, op, args, transportVars, negotiationVars, info, plan, result>>

\* line 399 raises: the try of line 402 has not been entered
CreateAudioTempFails ==
    /\ pc = "mktemp_audio"
    /\ effects' = Append(effects, Effect("mktemp", "atemp"))
    /\ DownloadRaise(fs, <<"OSError">>)
    /\ UNCHANGED <<process, op, args, transportVars, negotiationVars, info, plan, stream>>

\* failures of lines 256-266, before the file is opened: urlopen raises
\* (HTTPError, URLError, timeout), or open() raises
OpenFailures == {"HTTP Error 403", "network", "open failed"}

\* _download_stream, lines 255-266: one GET, then the file is opened for writing
OpenStream ==
    /\ pc = "open"
    /\ effects' = Append(effects, Effect("GET", stream.url))
    /\ fs' = [fs EXCEPT ![stream.target] = EmptyFile]
    /\ pc' = "read"
    /\ UNCHANGED <<process, op, args, transportVars, negotiationVars, info, plan, stream, result>>

\* variant: a failed GET is followed by another GET for the same stream
OpenStreamFails_Retries ==
    /\ pc = "open"
    /\ effects' = Append(effects, Effect("GET", stream.url))
    /\ UNCHANGED <<process, op, pc, args, transportVars, negotiationVars, info, plan, fs,
                   stream, result>>

OpenStreamFails ==
    /\ pc = "open"
    /\ effects' = Append(effects, Effect("GET", stream.url))
    /\ \E e \in OpenFailures : DownloadRaise(fs, <<e>>)
    /\ UNCHANGED <<process, op, args, transportVars, negotiationVars, info, plan, stream>>

\* lines 267-280: a chunk is read and written
ReadChunk ==
    /\ pc = "read"
    /\ fs[stream.target].chunks < MaxChunks
    /\ fs' = [fs EXCEPT ![stream.target].chunks = @ + 1]
    /\ UNCHANGED <<process, op, pc, args, transportVars, negotiationVars, info, plan, stream,
                   effects, result>>

\* response.read or out_file.write raises in the middle of the transfer
ReadFails ==
    /\ pc = "read"
    /\ DownloadRaise(fs, <<"read failed">>)
    /\ UNCHANGED <<process, op, args, transportVars, negotiationVars, info, plan, stream, effects>>

\* lines 269-270 and 282: end of stream, _download_stream returns; the caller
\* goes on at line 330/464 (single stream), 407 (audio stream) or 410 (merge)
StreamDone ==
    /\ pc = "read"
    /\ fs' = [fs EXCEPT ![stream.target].complete = TRUE]
    /\ IF stream.target = "final"
       THEN /\ DownloadReturn(Success(plan.filename,
                                      IF plan.kind = "audio_only" THEN "absent" ELSE "False"))
            /\ stream' = stream
       ELSE IF stream.target = "vtemp"
       THEN /\ stream' = [target |-> "atemp", url |-> plan.audio[1].url]
            /\ pc' = "open"
            /\ result' = result
       ELSE /\ stream' = stream
            /\ pc' = "merge"
            /\ result' = result
    /\ UNCHANGED <<process, op, args, transportVars, negotiationVars, info, plan, effects>>

CompleteFile == [exists |-> TRUE, chunks |-> 1, complete |-> TRUE]
PartialFile == [exists |-> TRUE, chunks |-> 1, complete |-> FALSE]

\* lines 426-447: ffmpeg exits 0
MergeSucceeds ==
    /\ pc = "merge"
    /\ effects' = Append(effects, Effect("ffmpeg", "exit 0"))
    /\ fs' = Cleanup([fs EXCEPT !["final"] = CompleteFile])
    /\ DownloadReturn(Success(plan.filename, "True"))
    /\ UNCHANGED <<process, op, args, transportVars, negotiationVars, info, plan, stream>>

\* variant: the return code of the tool is not looked at
MergeFails_IgnoresExit ==
    /\ pc = "merge"
    /\ effects' = Append(effects, Effect("ffmpeg", "exit 1"))
    /\ \E left \in {AbsentFile, PartialFile} :
         fs' = Cleanup([fs EXCEPT !["final"] = left])
    /\ DownloadReturn(Success(plan.filename, "True"))
    /\ UNCHANGED <<process, op, args, transportVars, negotiationVars, info, plan, stream>>

\* lines 426-429, 442-447: ffmpeg exits non-zero; what it leaves at the output
\* path is up to the tool
MergeFails ==
    /\ pc = "merge"
    /\ effects' = Append(effects, Effect("ffmpeg", "exit 1"))
    /\ \E left \in {AbsentFile, PartialFile} :
         fs' = Cleanup([fs EXCEPT !["final"] = left])
    /\ DownloadReturn(Error(<<"FFmpeg merge failed: ", "stderr">>))
    /\ UNCHANGED <<process, op, args, transportVars, negotiationVars, info, plan, stream>>

\* line 426: subprocess.run raises (no ffmpeg executable)
MergeToolMissing ==
    /\ pc = "merge"
    /\ effects' = Append(effects, Effect("ffmpeg", "not started"))
    /\ DownloadRaise(fs, <<"No such file or directory: 'ffmpeg'">>)
    /\ UNCHANGED <<process, op, args, transportVars, negotiationVars, info, plan, stream>>

Next ==
    \/ CallMakeRequest
    \/ CallGetVideoInfo
    \/ TryContext
    \/ AttemptSuccess
    \/ AttemptHTTPError
    \/ AttemptOtherError
    \/ AttemptEncodeError
    \/ ParseException
    \/ ParseOK
    \/ ParseUnplayable
    \/ ParseOtherStatus
    \/ ParseNoStatus
    \/ BuildAndReturn
    \/ CallDownloadVideo
    \/ ReturnInfoError
    \/ ReturnNoFormats
    \/ MakedirsFails
    \/ SelectFails
    \/ StartAudioOnly
    \/ StartSingle
    \/ StartMerge
    \/ CreateVideoTemp
    \/ CreateVideoTempFails
    \/ CreateAudioTemp
    \/ CreateAudioTempFails
    \/ OpenStream
    \/ OpenStreamFails
    \/ ReadChunk
    \/ ReadFails
    \/ StreamDone
    \/ MergeSucceeds
    \/ MergeFails
    \/ MergeToolMissing

Spec == Init /\ [][Next]_vars


(***************************************************************************)
(* main: the command line (lines 478-509).  The process starts, runs one   *)
(* command and exits; a process that falls off the end of main exits with  *)
(* code 0.                                                                 *)
(***************************************************************************)
\* lines 479-481: fewer than three argv entries
MainUsageError ==
    /\ process = Started
    /\ pc = "idle"
    /\ result' = Error(<<"Usage: python yt_downloader.py <command> <url> [options]">>)
    /\ process' = Exited(1)
    /\ pc' = "exited"
    /\ UNCHANGED <<op, args, transportVars, negotiationVars, downloadVars>>

\* lines 507-509: a command that is neither 'info' nor 'download'
MainUnknownCommand ==
    /\ process = Started
    /\ pc = "idle"
    /\ result' = Error(<<"Unknown command: ", "play">>)
    /\ process' = Exited(1)
    /\ pc' = "exited"
    /\ UNCHANGED <<op, args, transportVars, negotiationVars, downloadVars>>

\* lines 488-489
MainInfo ==
    /\ process = Started
    /\ StartGetVideoInfo
    /\ process' = Running

\* lines 492-504
MainDownload ==
    /\ process = Started
    /\ StartDownloadVideo
    /\ process' = Running

\* lines 490 and 505: the value returned by the core call is printed as JSON,
\* main returns and the interpreter exits with code 0
MainPrintResult ==
    /\ process = Running
    /\ pc = "done"
    /\ process' = Exited(0)
    /\ pc' = "exited"
    /\ UNCHANGED <<op, args, transportVars, negotiationVars, downloadVars, result>>

InitMain ==
    /\ op = "none"
    /\ pc = "idle"
    /\ args = NoArgs
    /\ attempt = 0
    /\ data = "none"
    /\ trace = <<>>
    /\ reqResult = NoResult
    /\ idx = 0
    /\ consulted = <<>>
    /\ pacing = 0
    /\ player_response = NoPayload
    /\ video_id = <<>>
    /\ info = NoValue
    /\ plan = NoPlan
    /\ fs = [n \in FileNames |-> AbsentFile]
    /\ stream = NoStream
    /\ effects = <<>>
    /\ result = NoValue
    /\ process = Started

NextMain ==
    \/ MainUsageError
    \/ MainUnknownCommand
    \/ MainInfo
    \/ MainDownload
    \/ MainPrintResult
    \/ TryContext
    \/ AttemptSuccess
    \/ AttemptHTTPError
    \/ AttemptOtherError
    \/ AttemptEncodeError
    \/ ParseException
    \/ ParseOK
    \/ ParseUnplayable
    \/ ParseOtherStatus
    \/ ParseNoStatus
    \/ BuildAndReturn
    \/ ReturnInfoError
    \/ ReturnNoFormats
    \/ MakedirsFails
    \/ SelectFails
    \/ StartAudioOnly
    \/ StartSingle
    \/ StartMerge
    \/ CreateVideoTemp
    \/ CreateVideoTempFails
    \/ CreateAudioTemp
    \/ CreateAudioTempFails
    \/ OpenStream
    \/ OpenStreamFails
    \/ ReadChunk
    \/ ReadFails
    \/ StreamDone
    \/ MergeSucceeds
    \/ MergeFails
    \/ MergeToolMissing

SpecMain == InitMain /\ [][NextMain]_vars


(***************************************************************************)
(* get_video_info on generated urls: the call has been made with a url put *)
(* together from at most MaxUrlParts parts, and lines 165-166 extract the  *)
(* id from it.                                                             *)
(***************************************************************************)
OtherId == <<"A", "-", "_", "0", "z", "Z", "9", "a", "B", "c", "1">>

UrlParts ==
    { <<"y", ".", "t">>,
      <<"/">>,
      <<"?", "v", "=">>,
      <<"e", "m", "b", "e", "d", "/">>,
      <<"&", "t", "=", "1">>,
      <<"a", "b", "c">>,
      <<"\n">>,
      SampleId,
      OtherId }

RECURSIVE Concat(_)
Concat(parts) == IF parts = <<>> THEN <<>> ELSE Head(parts) \o Concat(Tail(parts))

GeneratedUrls ==
    { Concat(parts) : parts \in UNION { SeqsOfLen(UrlParts, n) : n \in 0..MaxUrlParts } }

InitExtract ==
    /\ op = "info"
    /\ pc = "enter"
    /\ \E u \in GeneratedUrls : args = [NoArgs EXCEPT !.url = u]
    /\ attempt = 0
    /\ data = "none"
    /\ trace = <<>>
    /\ reqResult = NoResult
    /\ idx = 0
    /\ consulted = <<>>
    /\ pacing = 0
    /\ player_response = NoPayload
    /\ video_id = <<>>
    /\ info = NoValue
    /\ plan = NoPlan
    /\ fs = [n \in FileNames |-> AbsentFile]
    /\ stream = NoStream
    /\ effects = <<>>
    /\ result = NoValue
    /\ process = NoProcess

\* lines 165-172, and 250-251 when extract_video_id raises ValueError
ExtractId ==
    /\ pc = "enter"
    /\ EnterGetVideoInfo(op, args.url)
    /\ UNCHANGED <<process, op, args, transportVars, consulted, pacing, player_response,
                   plan, fs, stream, effects>>

NextExtract == ExtractId

SpecExtract == InitExtract /\ [][NextExtract]_vars


(***************************************************************************)
(* download_video on generated catalogs: the states in which the first     *)
(* context has answered OK to the get_video_info of line 295 and the loop  *)
(* of line 174 has been left, for every streamingData of at most           *)
(* MaxFormats raw records; the record is built and download_video goes on. *)
(***************************************************************************)
GeneratedStreams ==
    UNION { { StreamingData(f, a) : f \in SeqsOfLen(RawCombinedPool, n),
                                    a \in SeqsOfLen(RawAdaptivePool, m) } :
            n \in 0..MaxFormats, m \in 0..MaxFormats } 

BoundedStreams ==
    { sd \in GeneratedStreams : Len(sd.formats) + Len(sd.adaptiveFormats) <= MaxFormats }

\* qualityLabel values: absent, or any string of at most MaxLabelLen characters
\* over a digit, the letter p, another letter and the underscore
LabelAlphabet == {"7", "p", "h", "_"}

GeneratedLabels ==
    {None} \cup { Some(l) : l \in UNION { SeqsOfLen(LabelAlphabet, n) : n \in 0..MaxLabelLen } }

\* a video-only record with a generated label, next to an audio-only record
LabelStreams ==
    { StreamingData(<<>>,
                    <<RawFormat(299, ql, None, Some(MimeVideoMp4), Some("u299"), Some(5000000)),
                      ByItag(RawAdaptivePool, 140)>>) : ql \in GeneratedLabels }

\* a video-only record with two audio-only records, of which one has no
\* bitrate in the API response
SeparateStreams ==
    { StreamingData(<<>>, <<ByItag(RawAdaptivePool, 137), ByItag(RawAdaptivePool, 140),
                            ByItag(RawAdaptivePool, 139)>>) }

\* the ladder 360p/480p/720p/1080p of video-only records with two audio-only
\* records
LadderStreams ==
    { StreamingData(<<>>,
                    <<RawFormat(134, Some(L360p), None, Some(MimeVideoMp4), Some("u134"), Some(500000)),
                      RawFormat(135, Some(L480p), None, Some(MimeVideoMp4), Some("u135"), Some(1000000)),
                      ByItag(RawAdaptivePool, 136),
                      ByItag(RawAdaptivePool, 137),
                      ByItag(RawAdaptivePool, 140),
                      ByItag(RawAdaptivePool, 251)>>) }

GeneratedResponses ==
    { Response(Some(Playability(Some("OK"), None)), 1, sd, <<"t.jpg">>) :
        sd \in BoundedStreams \cup LabelStreams \cup LadderStreams \cup SeparateStreams }
    \cup { Response(Some(Playability(Some("OK"), None)), 1, StreamingData(<<>>, <<>>), <<>>) }

QualityInputs == { Qbest, Qworst, Qexact720, Qexact700, Qexact540, Qbadp, Qbad }

InitSelect ==
    /\ op = "download"
    /\ pc = "build"
    /\ \E q \in QualityInputs, a \in BOOLEAN, m \in BOOLEAN :
         args = [NoArgs EXCEPT !.quality = q, !.audio_only = a, !.merge = m]
    /\ attempt = 0
    /\ data = "bytes"
    /\ trace = <<>>
    /\ \E r \in GeneratedResponses :
         /\ reqResult = Content(r)
         /\ player_response = r
    /\ info = NoValue
    /\ idx = 1
    /\ consulted = <<Consult(1, "OK")>>
    /\ pacing = 0
    /\ video_id = SampleId
    /\ plan = NoPlan
    /\ fs = [n \in FileNames |-> AbsentFile]
    /\ stream = NoStream
    /\ effects = <<>>
    /\ result = NoValue
    /\ process = NoProcess

NextSelect ==
    \/ BuildAndReturn
    \/ ReturnInfoError
    \/ ReturnNoFormats
    \/ MakedirsFails
    \/ SelectFails
    \/ StartAudioOnly
    \/ StartSingle
    \/ StartMerge
    \/ CreateVideoTemp
    \/ CreateVideoTempFails
    \/ CreateAudioTemp
    \/ CreateAudioTempFails
    \/ OpenStream
    \/ OpenStreamFails
    \/ ReadChunk
    \/ ReadFails
    \/ StreamDone
    \/ MergeSucceeds
    \/ MergeFails
    \/ MergeToolMissing

SpecSelect == InitSelect /\ [][NextSelect]_vars


(***************************************************************************)
(* Vocabulary of the properties.                                           *)
(***************************************************************************)
IsAttemptEntry(e) == e.kind \in {"http_ok", "http_error", "net_error", "encode_error"}
IsHttpEntry(e) == e.kind \in {"http_ok", "http_error", "net_error"}
IsSleepEntry(e) == e.kind \in {"sleep_delay", "sleep_backoff", "sleep_fixed"}

Attempts(tr) == SelectSeq(tr, IsAttemptEntry)
HttpExchanges(tr) == SelectSeq(tr, IsHttpEntry)
Sleeps(tr) == SelectSeq(tr, IsSleepEntry)

\* the 0-based number of the attempt that trace entry i belongs to
AttemptOf(tr, i) == Len(Attempts(SubSeq(tr, 1, i))) - 1

DirectCallDone == op = "request" /\ pc = "done"

\* get_video_info has returned, to its caller or into download_video
InfoReturned ==
    \/ op = "info" /\ pc = "done"
    \/ op = "download" /\ pc \notin {"idle", "context", "request", "parse", "build"}

InfoValue == IF op = "info" THEN result ELSE info

DownloadDone == op = "download" /\ pc = "done"

\* the context consulted i-th was not the last of the list and negotiation
\* went on to the next one
AdvancedPast(i) ==
    \/ Len(consulted) > i
    \/ Len(consulted) = i /\ idx = i + 1 /\ pc \in {"context", "request", "parse"}

(***************************************************************************)
(* C1.  Retry budget: against a transport that answers 403 to the first    *)
(* two requests of a call and succeeds on the third, _make_request (with   *)
(* or without a body) performs exactly two sleeps, the backoff sleeps      *)
(* 2^0 + jitter and 2^1 + jitter, and returns the payload.                 *)
(***************************************************************************)
FollowsScript403_403_OK(h) ==
    /\ Len(h) <= 3
    /\ \A k \in 1..Len(h) :
         IF k <= 2 THEN h[k].kind = "http_error" /\ h[k].n = 403
                   ELSE h[k].kind = "http_ok"

C1_TwoBackoffSleepsThenPayload ==
    (DirectCallDone /\ FollowsScript403_403_OK(HttpExchanges(trace)))
        => /\ result.kind = "content"
           /\ Len(Sleeps(trace)) = 2
           /\ Sleeps(trace)[1].kind = "sleep_backoff"
           /\ Sleeps(trace)[1].n \in 10..19
           /\ Sleeps(trace)[2].kind = "sleep_backoff"
           /\ Sleeps(trace)[2].n \in 20..29

(***************************************************************************)
(* C2.  Negotiation consults the contexts strictly in list order and       *)
(* never consults one after a context has returned OK: when context k is   *)
(* the first to return OK, exactly k contexts are consulted and the        *)
(* returned record is built from the response served to context k.         *)
(***************************************************************************)
C2_StopsAtFirstOK ==
    /\ \A i \in 1..Len(consulted) : consulted[i].context = contexts_to_try[i]
    /\ \A i \in 1..Len(consulted) : consulted[i].outcome = "OK" => i = Len(consulted)
    /\ (consulted # <<>> /\ consulted[Len(consulted)].outcome = "OK")
         => /\ pc \notin {"context", "request", "parse"}
            /\ player_response.servedTo = Len(consulted)
            /\ InfoReturned =>
                 /\ InfoValue = BuildInfo(video_id, player_response)
                 /\ InfoValue.kind = "info" => InfoValue.details = Len(consulted)

C2_Witness ==
    /\ InfoReturned
    /\ Len(consulted) = 2
    /\ consulted[1].outcome = "UNPLAYABLE"
    /\ consulted[2].outcome = "OK"
    /\ InfoValue.kind = "info"
    /\ InfoValue.details = 2
    /\ InfoValue.formats # <<>>

(***************************************************************************)
(* C3 as stated.  Any error other than HTTP 403 (an HTTP error with        *)
(* another status, a timeout, a network error) on an attempt that is not   *)
(* the last is followed by a sleep of 1 time unit and a retry.             *)
(***************************************************************************)
IsNon403Failure(e) ==
    \/ e.kind \in {"net_error", "encode_error"}
    \/ e.kind = "http_error" /\ e.n # 403

SleepsOneAndRetries(i) ==
    /\ i < Len(trace)
    /\ trace[i + 1].kind = "sleep_fixed"
    /\ trace[i + 1].n = 10
    /\ \/ i + 1 < Len(trace)
       \/ pc = "request" /\ attempt = AttemptOf(trace, i) + 1

C3_AnyOtherErrorRetried ==
    \A i \in 1..Len(trace) :
        (IsNon403Failure(trace[i]) /\ AttemptOf(trace, i) < 2) => SleepsOneAndRetries(i)

(***************************************************************************)
(* C3 amended.  An exception that is not an HTTPError, raised on an        *)
(* attempt that is not the last, is followed by a sleep of 1 time unit and *)
(* the next attempt; an HTTP error with a status other than 403 is         *)
(* propagated at once, without sleep or retry, on any attempt.             *)
(***************************************************************************)
C3_NonHttpErrorRetried ==
    \A i \in 1..Len(trace) :
        /\ (trace[i].kind \in {"net_error", "encode_error"} /\ AttemptOf(trace, i) < 2)
             => SleepsOneAndRetries(i)
        /\ (trace[i].kind = "http_error" /\ trace[i].n # 403)
             => /\ i = Len(trace)
                /\ DirectCallDone
                /\ result = Raised(HTTPError(trace[i].n))

C3_Witness ==
    /\ DirectCallDone
    /\ Len(trace) >= 4
    /\ trace[1].kind = "net_error"
    /\ trace[2].kind = "sleep_fixed"
    /\ trace[Len(trace)].kind = "http_error"
    /\ trace[Len(trace)].n = 500
    /\ result.kind = "raise"

(***************************************************************************)
(* C4.  When download_video has returned, with success or with an error,   *)
(* the output path holds the complete output file or no file of this call: *)
(* never a partially written one.                                          *)
(***************************************************************************)
C4_NoPartialOutputFile ==
    DownloadDone =>
        /\ fs["final"].exists => fs["final"].complete
        /\ result.kind = "success" => fs["final"].exists /\ fs["final"].complete

(***************************************************************************)
(* C5.  When download_video has returned, no temporary file of the merge   *)
(* path exists, whichever way the call ended, a failure to create the      *)
(* second temporary file included.                                         *)
(***************************************************************************)
C5_NoTempFileLeft ==
    DownloadDone => ~fs["vtemp"].exists /\ ~fs["atemp"].exists


(***************************************************************************)
(* C6 as stated.  With audio_only false, merge disabled and quality        *)
(* 'best', the selected record has both audio and video and the highest    *)
(* parsed resolution among the catalog's records that have both.           *)
(***************************************************************************)
BestMuxedPolicy == ~args.audio_only /\ ~args.merge /\ args.quality = Qbest

Catalog == info.formats

CombinedRecords == {i \in 1..Len(Catalog) : IsCombined(Catalog[i])}
VideoRecords == {i \in 1..Len(Catalog) : IsVideo(Catalog[i])}

VideoSelected == op = "download" /\ plan.kind \in {"single", "merge"}

C6_SelectsBestCombined ==
    (VideoSelected /\ BestMuxedPolicy)
        => /\ plan.video[1].hasAudio
           /\ plan.video[1].hasVideo
           /\ \A i \in CombinedRecords :
                get_resolution(Catalog[i]) <= get_resolution(plan.video[1])

(***************************************************************************)
(* C6 amended.  Under the same policy the selected record has video and    *)
(* the highest parsed resolution among the catalog's records that have     *)
(* video, the earliest such record in catalog order; it is downloaded as a *)
(* single stream, and it is a video-only record whenever that record is    *)
(* video-only.                                                             *)
(***************************************************************************)
C6_SelectsBestVideo ==
    (VideoSelected /\ BestMuxedPolicy)
        => /\ plan.kind = "single"
           /\ plan.video[1].hasVideo
           /\ \E i \in VideoRecords :
                /\ plan.video[1] = Catalog[i]
                /\ \A j \in VideoRecords :
                     /\ get_resolution(Catalog[j]) <= get_resolution(Catalog[i])
                     /\ j < i => get_resolution(Catalog[j]) < get_resolution(Catalog[i])

C6_Witness ==
    /\ VideoSelected
    /\ BestMuxedPolicy
    /\ DownloadDone
    /\ result.kind = "success"
    /\ ~plan.video[1].hasAudio
    /\ CombinedRecords # {}

(***************************************************************************)
(* C7.  A playability status other than OK and UNPLAYABLE makes            *)
(* negotiation advance to the next context when the context is not the     *)
(* last, and get_video_info returns 'Video not available: <reason>' (the   *)
(* reason of that response, 'Unknown error' by default) if and only if the *)
(* context is the last one of the list.                                    *)
(***************************************************************************)
IsVideoNotAvailable(v) ==
    v.kind = "error" /\ Len(v.msg) = 2 /\ v.msg[1] = "Video not available: "

C7_OtherStatusOnlyFatalOnLast ==
    /\ \A i \in 1..Len(consulted) :
         (consulted[i].outcome = "OTHER" /\ i < 4) => AdvancedPast(i)
    /\ (Len(consulted) = 4 /\ consulted[4].outcome = "OTHER")
         => /\ InfoReturned
            /\ InfoValue = Error(<<"Video not available: ",
                                   IF player_response.playabilityStatus[1].reason = None
                                   THEN "Unknown error"
                                   ELSE player_response.playabilityStatus[1].reason[1]>>)
            /\ player_response.servedTo = 4
    /\ (InfoReturned /\ IsVideoNotAvailable(InfoValue))
         => Len(consulted) = 4 /\ consulted[4].outcome = "OTHER"

C7_Witness ==
    /\ InfoReturned
    /\ InfoValue = Error(<<"Video not available: ", "Unknown error">>)
    /\ consulted[1].outcome = "OTHER"
    /\ consulted[2].outcome = "UNPLAYABLE"

(***************************************************************************)
(* C8.  An exception of the transport or of response parsing is swallowed  *)
(* on a context that is not the last, and the next context is tried; on    *)
(* the last context it propagates and get_video_info returns an error      *)
(* carrying that exception's message, whatever earlier contexts returned.  *)
(***************************************************************************)
LastExceptionMsg ==
    IF reqResult.kind = "raise" THEN reqResult.exc.msg ELSE <<"Expecting value">>

C8_ExceptionOnlyFatalOnLast ==
    /\ \A i \in 1..Len(consulted) :
         (consulted[i].outcome = "EXCEPTION" /\ i < 4) => AdvancedPast(i)
    /\ (Len(consulted) = 4 /\ consulted[4].outcome = "EXCEPTION")
         => /\ InfoReturned
            /\ InfoValue.kind = "error"
            /\ InfoValue.msg = LastExceptionMsg

C8_Witness ==
    /\ InfoReturned
    /\ Len(consulted) = 4
    /\ consulted[1].outcome = "EXCEPTION"
    /\ consulted[2].outcome = "UNPLAYABLE"
    /\ consulted[4].outcome = "EXCEPTION"
    /\ reqResult.kind = "raise"
    /\ InfoValue = Error(<<"HTTP Error", "500">>)

(***************************************************************************)
(* C9.  When no context returned OK and get_video_info returns a record    *)
(* that is not an error, the record is built from the response of the last *)
(* context of the list, whose status was UNPLAYABLE or absent; the         *)
(* response of an earlier context is never used.                           *)
(***************************************************************************)
NoContextReturnedOK == \A i \in 1..Len(consulted) : consulted[i].outcome # "OK"

C9_FallthroughUsesLastResponse ==
    (InfoReturned /\ NoContextReturnedOK /\ InfoValue.kind = "info")
        => /\ Len(consulted) = 4
           /\ consulted[4].outcome \in {"UNPLAYABLE", "NOSTATUS"}
           /\ player_response.servedTo = 4
           /\ InfoValue.details = 4
           /\ InfoValue = BuildInfo(video_id, player_response)

C9_Witness ==
    /\ InfoReturned
    /\ NoContextReturnedOK
    /\ InfoValue.kind = "info"
    /\ InfoValue.details = 4
    /\ consulted[1].outcome = "UNPLAYABLE"
    /\ consulted[3].outcome = "EXCEPTION"
    /\ consulted[4].outcome = "NOSTATUS"

(***************************************************************************)
(* C10.  A call of _make_request makes at most 3 attempts, and when the    *)
(* third attempt fails its error is propagated with no further sleep and   *)
(* no further attempt.                                                     *)
(***************************************************************************)
C10_AtMostThreeAttempts ==
    /\ Len(Attempts(trace)) <= 3
    /\ attempt <= 2
    /\ (Len(Attempts(trace)) = 3 /\ Attempts(trace)[3].kind # "http_ok")
         => /\ IsAttemptEntry(trace[Len(trace)])
            /\ pc # "request"
            /\ op = "request" => result.kind = "raise"

C10_Witness ==
    /\ DirectCallDone
    /\ Len(Attempts(trace)) = 3
    /\ Attempts(trace)[3].kind = "http_error"
    /\ Attempts(trace)[3].n = 403
    /\ result = Raised(HTTPError(403))

(***************************************************************************)
(* C11.  get_resolution ranks a quality label as the integer n only when   *)
(* the whole label is one or more digits followed by the single letter p;  *)
(* a label of any other shape, and a missing label, ranks as 0.            *)
(***************************************************************************)
IsDigitsThenP(s) ==
    /\ Len(s) >= 2
    /\ s[Len(s)] = "p"
    /\ \A i \in 1..(Len(s) - 1) : s[i] \in Digits

DigitsThenPRank(f) ==
    IF f.quality # None /\ IsDigitsThenP(f.quality[1])
    THEN DigitsValue(SubSeq(f.quality[1], 1, Len(f.quality[1]) - 1))
    ELSE 0

C11_RanksOnlyDigitsThenP ==
    VideoSelected =>
        \A i \in VideoRecords : get_resolution(Catalog[i]) = DigitsThenPRank(Catalog[i])

(***************************************************************************)
(* C12.  With audio_only set and a non-empty catalog, the record chosen is *)
(* an audio-only record of maximal bitrate, a record whose bitrate the API *)
(* omitted counting as bitrate 0 (so the selection succeeds when some      *)
(* audio-only records have no bitrate); when the catalog has no audio-only *)
(* record the call returns the no-audio-format error.                      *)
(***************************************************************************)
AudioOnlyRecords == {i \in 1..Len(Catalog) : IsAudioOnly(Catalog[i])}

BitrateOrZero(f) == IF f.bitrate = None THEN 0 ELSE f.bitrate[1]

\* os.makedirs failed, before any selection was made
MakedirsFailed == DownloadDone /\ plan.kind = "none" /\ result = Error(<<"OSError">>)

\* download_video has gone through the selection on a non-empty catalog
SelectionDone ==
    /\ op = "download"
    /\ pc # "select"
    /\ info.kind = "info"
    /\ Catalog # <<>>
    /\ ~MakedirsFailed

C12_AudioOnlyMaxBitrate ==
    (SelectionDone /\ args.audio_only) =>
        IF AudioOnlyRecords = {}
        THEN DownloadDone /\ result = Error(<<"No audio-only formats found">>)
        ELSE /\ plan.kind = "audio_only"
             /\ \E i \in AudioOnlyRecords :
                  /\ plan.audio[1] = Catalog[i]
                  /\ \A j \in AudioOnlyRecords :
                       BitrateOrZero(Catalog[j]) <= BitrateOrZero(Catalog[i])

(***************************************************************************)
(* C13.  With a quality of the form '<n>p', the record chosen among the    *)
(* catalog's records with video is the first one in catalog order whose    *)
(* parsed resolution equals n when there is one; otherwise it is a record  *)
(* that minimises |resolution - n| over all records with video, the        *)
(* earliest such record in catalog order.                                  *)
(***************************************************************************)
ExactPolicy == ~args.audio_only /\ args.quality \in {Qexact720, Qexact700, Qexact540}

ExactN ==
    CASE args.quality = Qexact720 -> 720
      [] args.quality = Qexact700 -> 700
      [] args.quality = Qexact540 -> 540

Distance(i) == Abs(get_resolution(Catalog[i]) - ExactN)

ExactRecords == {i \in VideoRecords : get_resolution(Catalog[i]) = ExactN}

C13_ExactOrClosest ==
    (VideoSelected /\ ExactPolicy) =>
        \E i \in VideoRecords :
            /\ plan.video[1] = Catalog[i]
            /\ IF ExactRecords # {}
               THEN /\ i \in ExactRecords
                    /\ \A j \in ExactRecords : i <= j
               ELSE \A j \in VideoRecords :
                      /\ Distance(i) <= Distance(j)
                      /\ j < i => Distance(i) < Distance(j)

\* the ladder 360p/480p/720p/1080p asked for 700p: the 720p record is chosen
C13_Witness ==
    /\ VideoSelected
    /\ DownloadDone
    /\ result.kind = "success"
    /\ args.quality = Qexact700
    /\ Cardinality(VideoRecords) = 4
    /\ ExactRecords = {}
    /\ plan.video[1].itag = 136

(***************************************************************************)
(* C14.  When a video record is chosen that lacks audio and merging is     *)
(* requested, the plan is the pair of that record and the audio-only       *)
(* record of highest bitrate if the catalog has an audio-only record;      *)
(* if it has none the call does not fail: the video-only record is         *)
(* downloaded as a single stream and success is returned with merged       *)
(* false.  When the chosen record has audio, or merging is disabled,       *)
(* exactly one stream is downloaded and the merge tool is never invoked.   *)
(***************************************************************************)
ValidQuality == args.quality \in {Qbest, Qworst, Qexact720, Qexact700, Qexact540}

\* the selection of lines 355-379 has a record to choose
VideoChoiceExists == SelectionDone /\ ~args.audio_only /\ ValidQuality /\ VideoRecords # {}

IsGet(e) == e.kind = "GET"
IsMergeTool(e) == e.kind = "ffmpeg"

Gets == SelectSeq(effects, IsGet)
MergeToolRuns == SelectSeq(effects, IsMergeTool)

SingleStreamOnly ==
    /\ plan.kind = "single"
    /\ Len(Gets) <= 1
    /\ MergeToolRuns = <<>>
    /\ (DownloadDone /\ result.kind = "success")
         => /\ Len(Gets) = 1
            /\ Gets[1].arg = plan.video[1].url
            /\ result.merged = "False"

C14_MergeDecision ==
    VideoChoiceExists =>
        /\ VideoSelected
        /\ IF args.merge /\ ~plan.video[1].hasAudio
           THEN IF AudioOnlyRecords # {}
                THEN /\ plan.kind = "merge"
                     /\ \E i \in AudioOnlyRecords :
                          /\ plan.audio[1] = Catalog[i]
                          /\ \A j \in AudioOnlyRecords :
                               BitrateOrZero(Catalog[j]) <= BitrateOrZero(Catalog[i])
                ELSE SingleStreamOnly
           ELSE SingleStreamOnly

(***************************************************************************)
(* C15.  On the merge path the video stream is requested first and its     *)
(* download has completed when the audio stream is requested; the merge    *)
(* tool is run only when both downloads have completed, so never after a   *)
(* failed download; and a non-zero exit status of the merge tool gives an  *)
(* error result carrying the tool's stderr text, success with merged true  *)
(* being returned only on exit status 0.                                   *)
(***************************************************************************)
OnMergePath == op = "download" /\ plan.kind = "merge"

VideoGetStep == OnMergePath /\ Len(Gets) = 0 /\ Len(Gets') = 1
AudioGetStep == OnMergePath /\ Len(Gets) = 1 /\ Len(Gets') = 2
MergeToolStep == Len(MergeToolRuns') = Len(MergeToolRuns) + 1

C15_MergeOrdering ==
    [][ /\ Len(Gets') <= 2
        /\ VideoGetStep => Gets'[1].arg = plan.video[1].url
        /\ AudioGetStep =>
             /\ fs["vtemp"].complete
             /\ Gets[1].arg = plan.video[1].url
             /\ Gets'[2].arg = plan.audio[1].url
        /\ MergeToolStep =>
             /\ OnMergePath
             /\ Len(Gets) = 2
             /\ fs["vtemp"].complete
             /\ fs["atemp"].complete
             /\ MergeToolRuns = <<>>
        /\ (MergeToolStep /\ MergeToolRuns'[1].arg = "exit 1") =>
             result' = Error(<<"FFmpeg merge failed: ", "stderr">>)
        /\ (OnMergePath /\ result'.kind = "success") =>
             /\ MergeToolStep
             /\ MergeToolRuns'[1].arg = "exit 0"
             /\ result'.merged = "True"
      ]_vars

C15_Witness ==
    /\ OnMergePath
    /\ DownloadDone
    /\ Len(Gets) = 2
    /\ Len(MergeToolRuns) = 1
    /\ MergeToolRuns[1].arg = "exit 1"
    /\ result = Error(<<"FFmpeg merge failed: ", "stderr">>)

(***************************************************************************)
(* C16.  Every record of the catalog returned by get_video_info has a      *)
(* non-empty URL: the raw records of either list whose URL is missing or   *)
(* empty are dropped, the catalog has as many records as there are raw     *)
(* records with a URL, and the survivors keep the order combined list      *)
(* first, then adaptive list, each in the order of the API response.       *)
(***************************************************************************)
RawHasUrl(r) == Len(r.url) = 1 /\ r.url[1] # ""

RawCombined == player_response.streamingData.formats
RawAdaptive == player_response.streamingData.adaptiveFormats

RawWithUrl == SelectSeq(RawCombined, RawHasUrl) \o SelectSeq(RawAdaptive, RawHasUrl)

NumCombinedWithUrl == Cardinality({i \in 1..Len(RawCombined) : RawHasUrl(RawCombined[i])})
NumAdaptiveWithUrl == Cardinality({i \in 1..Len(RawAdaptive) : RawHasUrl(RawAdaptive[i])})

C16_CatalogHasOnlyUrls ==
    (InfoReturned /\ InfoValue.kind = "info") =>
        LET catalog == InfoValue.formats
        IN /\ \A i \in 1..Len(catalog) : catalog[i].url # ""
           /\ Len(catalog) = NumCombinedWithUrl + NumAdaptiveWithUrl
           /\ \A i \in 1..Len(catalog) :
                /\ catalog[i].itag = RawWithUrl[i].itag
                /\ catalog[i].url = RawWithUrl[i].url[1]
                /\ i <= NumCombinedWithUrl => catalog[i].hasAudio /\ catalog[i].hasVideo

\* one combined record with a URL and one adaptive record with an empty URL
C16_Witness ==
    /\ InfoReturned
    /\ InfoValue.kind = "info"
    /\ Len(RawCombined) = 1
    /\ Len(RawAdaptive) = 1
    /\ RawAdaptive[1].url = Some("")
    /\ Len(InfoValue.formats) = 1
    /\ InfoValue.formats[1].itag = RawCombined[1].itag

(***************************************************************************)
(* C17.  Whatever the outcomes of URL parsing, transport, JSON parsing,    *)
(* selection, file I/O and the merge tool, get_video_info returns an info  *)
(* record or an error record and download_video returns a success record   *)
(* or an error record: no exception reaches the caller.  An error record   *)
(* returned by get_video_info is returned unchanged by download_video.     *)
(***************************************************************************)
IsErrorRecord(v) == v.kind = "error" /\ v.msg # <<>>

C17_ErrorsAsData ==
    /\ (op = "info" /\ pc = "done") => result.kind = "info" \/ IsErrorRecord(result)
    /\ InfoReturned => InfoValue.kind = "info" \/ IsErrorRecord(InfoValue)
    /\ DownloadDone =>
         /\ result.kind = "success" \/ IsErrorRecord(result)
         /\ info.kind = "error" => result = info
    /\ op \in {"info", "download"} => result.kind # "raise"

\* the transport raised on the last context and the error came back unchanged
C17_Witness ==
    /\ DownloadDone
    /\ Len(consulted) = 4
    /\ consulted[4].outcome = "EXCEPTION"
    /\ reqResult = Raised(TypeError)
    /\ info = Error(TypeError.msg)
    /\ result = info

(***************************************************************************)
(* C18.  When the core call of the 'info' or 'download' command returns an *)
(* error result, the process exits with a non-zero exit code, as it does   *)
(* for a usage error and for an unknown command.                           *)
(***************************************************************************)
ProcessExited == process.state = "exited"

C18_ErrorExitsNonZero ==
    (ProcessExited /\ result.kind = "error") => process.code # 0

(***************************************************************************)
(* C19 as stated.  extract_video_id returns every 11-character string over *)
(* [0-9A-Za-z_-] unchanged, so that extracting from an extracted id gives  *)
(* the same id; for an input of the shape '...?v=<id>...' or               *)
(* '.../embed/<id>' it returns <id>; and it fails with the invalid-URL     *)
(* error when the input has none of these three shapes.                    *)
(***************************************************************************)
Url == args.url

Extracted == op = "info" /\ pc \in {"context", "done"} /\ idx <= 1

ExtractionFailed ==
    pc = "done" /\ result = Error(<<"Could not extract video ID from URL">>)

ExtractedId(id) == pc = "context" /\ video_id = id

IsIdString(s) == Len(s) = 11 /\ \A i \in 1..Len(s) : s[i] \in IdChars

IdFrom(u, g) == SubSeq(u, g, g + 10)

\* positions of an 11-character id that follows '?v='
QueryIds(u) ==
    {g \in 4..(Len(u) - 10) :
        /\ IsIdString(IdFrom(u, g))
        /\ u[g - 3] = "?" /\ u[g - 2] = "v" /\ u[g - 1] = "="}

\* the input ends with '/embed/' and an 11-character id
EndsWithEmbedId(u) ==
    /\ Len(u) >= 18
    /\ IsIdString(IdFrom(u, Len(u) - 10))
    /\ SubSeq(u, Len(u) - 17, Len(u) - 11) = <<"/", "e", "m", "b", "e", "d", "/">>

Idempotent == pc = "context" => extract_video_id(video_id) = Some(video_id)

C19_ExtractsThreeShapes ==
    Extracted =>
        /\ IsIdString(Url) => ExtractedId(Url)
        /\ Idempotent
        /\ QueryIds(Url) # {} => ExtractedId(IdFrom(Url, Min(QueryIds(Url))))
        /\ EndsWithEmbedId(Url) => ExtractedId(IdFrom(Url, Len(Url) - 10))
        /\ ~(IsIdString(Url) \/ QueryIds(Url) # {} \/ EndsWithEmbedId(Url))
             => ExtractionFailed

(***************************************************************************)
(* C19 amended.  extract_video_id returns every 11-character string over   *)
(* [0-9A-Za-z_-] unchanged (also when one newline follows it), so that     *)
(* extracting from an extracted id gives the same id.  For any input that  *)
(* holds a 'v=' or a '/' directly followed by 11 characters of that class  *)
(* it returns the 11 characters after the leftmost such place: this is     *)
(* <id> for '...?v=<id>...' and '.../embed/<id>' when no such place comes  *)
(* earlier in the input, and it is also the id of '<host>/<id>'.  It fails *)
(* with the invalid-URL error exactly for the other inputs.                *)
(***************************************************************************)
\* positions of 11 id characters that directly follow 'v=' or '/'
AnchoredIds(u) ==
    {g \in 2..(Len(u) - 10) :
        /\ IsIdString(IdFrom(u, g))
        /\ \/ u[g - 1] = "/"
           \/ g >= 3 /\ u[g - 2] = "v" /\ u[g - 1] = "="}

IsBareId(u) ==
    \/ IsIdString(u)
    \/ Len(u) = 12 /\ IsIdString(SubSeq(u, 1, 11)) /\ u[12] = "\n"

C19_ExtractsLeftmostAnchoredId ==
    Extracted =>
        /\ IsBareId(Url) => ExtractedId(SubSeq(Url, 1, 11))
        /\ Idempotent
        /\ AnchoredIds(Url) # {} => ExtractedId(IdFrom(Url, Min(AnchoredIds(Url))))
        /\ (QueryIds(Url) # {} /\ Min(QueryIds(Url)) = Min(AnchoredIds(Url)))
             => ExtractedId(IdFrom(Url, Min(QueryIds(Url))))
        /\ (EndsWithEmbedId(Url) /\ Len(Url) - 10 = Min(AnchoredIds(Url)))
             => ExtractedId(IdFrom(Url, Len(Url) - 10))
        /\ ExtractionFailed <=> (AnchoredIds(Url) = {} /\ ~IsBareId(Url))

\* '<host>/<id>': none of the three shapes, and the id is extracted
C19_Witness ==
    /\ Extracted
    /\ Url = <<"y", ".", "t", "/">> \o SampleId
    /\ QueryIds(Url) = {}
    /\ ~EndsWithEmbedId(Url)
    /\ ExtractedId(SampleId)

(***************************************************************************)
(* C20.  Within one call of download_video each selected stream URL is     *)
(* requested with exactly one GET.  A failure of that GET (HTTP 403        *)
(* included) or of the chunked read and write ends the call with an error  *)
(* result: no sleep is performed and the stream is not requested again.    *)
(***************************************************************************)
InTransfer == op = "download" /\ pc \in {"open", "read"}

GetStep == Len(Gets') = Len(Gets) + 1

EndsWithError == pc' = "done" /\ result'.kind = "error"

C20_TransferNeverRetried ==
    [][ /\ Len(Gets') <= 2
        /\ \A i, j \in 1..Len(Gets') : Gets'[i].arg = Gets'[j].arg => i = j
        /\ GetStep => pc = "open" /\ Gets'[Len(Gets')].arg = stream.url
        /\ InTransfer =>
             /\ trace' = trace /\ attempt' = attempt /\ pacing' = pacing
             /\ reqResult' = reqResult
        /\ (InTransfer /\ pc = "open") =>
             /\ GetStep
             /\ \/ pc' = "read" /\ stream' = stream /\ fs'[stream.target] = EmptyFile
                \/ EndsWithError
        /\ (InTransfer /\ pc = "read") =>
             /\ ~GetStep
             /\ \/ pc' = "read" /\ stream' = stream
                \/ fs'[stream.target].complete
                \/ EndsWithError
        /\ (InTransfer /\ pc' = "open") =>
             /\ stream'.target # stream.target
             /\ fs'[stream.target].complete
      ]_vars

\* the only GET of the call was answered 403 and the call returned the error
C20_Witness ==
    /\ DownloadDone
    /\ plan.kind = "single"
    /\ Len(Gets) = 1
    /\ Gets[1].arg = plan.video[1].url
    /\ result = Error(<<"HTTP Error 403">>)
    /\ ~fs["final"].exists

(***************************************************************************)
(* C21.  When _make_request is called with a JSON body, every attempt it   *)
(* makes issues an HTTP request, and every request carries the JSON        *)
(* encoding of the body the call was given: the number of HTTP requests    *)
(* issued equals the number of attempts made.                              *)
(***************************************************************************)
CalledWithBody == DirectCallDone /\ args.hasBody

CarriesJsonBody(e) == e.body = "json"

C21_EveryAttemptSendsBody ==
    CalledWithBody =>
        /\ Len(HttpExchanges(trace)) = Len(Attempts(trace))
        /\ \A i \in 1..Len(HttpExchanges(trace)) :
             CarriesJsonBody(HttpExchanges(trace)[i])

(***************************************************************************)
(* C22.  When download_video returns a selection error (no audio-only      *)
(* format, no suitable video format, an invalid quality value, or an empty *)
(* catalog), it has issued no stream GET, created no temporary file,       *)
(* written no output file and not run the merge tool.                      *)
(***************************************************************************)
SelectionErrorMsgs ==
    { <<"No audio-only formats found">>,
      <<"No suitable video format found">>,
      <<"No formats available with direct URLs">>,
      <<"Invalid quality format: ">> \o args.quality,
      <<"Invalid quality: ">> \o args.quality }

SelectionErrorReturned ==
    DownloadDone /\ result.kind = "error" /\ result.msg \in SelectionErrorMsgs

IsTransferEffect(e) == e.kind \in {"GET", "mktemp", "ffmpeg"}

TransferEffects == SelectSeq(effects, IsTransferEffect)

C22_SelectionErrorNoTransfer ==
    SelectionErrorReturned =>
        /\ TransferEffects = <<>>
        /\ \A n \in FileNames : fs[n] = AbsentFile
        /\ stream = NoStream
        /\ plan = NoPlan

\* an invalid quality on a catalog that holds a video and an audio-only
\* record with urls: the directory was made and nothing else was done
C22_Witness ==
    /\ SelectionErrorReturned
    /\ result.msg = <<"Invalid quality: ">> \o Qbad
    /\ VideoRecords # {}
    /\ AudioOnlyRecords # {}
    /\ effects = <<Effect("makedirs", "")>>
    /\ \A n \in FileNames : fs[n] = AbsentFile

====
